---- MODULE Spec2Model ----
(***************************************************************************)
(* Transport property models of SU2_CFD/src/transport_model.cpp: the       *)
(* viscosity models (Constant, Sutherland, FluidProp) and the conductivity *)
(* models (Constant, Constant-Prandtl, FluidProp).                         *)
(*                                                                         *)
(* One behaviour follows one model instance: Init is the object right      *)
(* after one of its constructors, every step is one call of one of its     *)
(* methods.  The FluidProp library is the environment: each query returns  *)
(* arbitrary property values and an arbitrary error message.               *)
(*                                                                         *)
(* A double is the pair <<n, d>> of a reduced fraction n/d with d > 0, or  *)
(* one of <<1, 0>> (+inf), <<-1, 0>> (-inf), <<0, 0>> (NaN).  Arithmetic   *)
(* is exact (no rounding) and the two zeros are not told apart; division   *)
(* by zero, inf and NaN follow IEEE 754.                                   *)
(***************************************************************************)
EXTENDS Integers, Sequences, FiniteSets, TLC

\* ---------------------------------------------------------------- bounds
\* temperatures are the squares 0, 1, 4, ... MaxRoot^2 (and -1)
MaxRoot == 2
\* viscosities, specific heats, Prandtl numbers and the service's outputs
\* are 1 .. MaxProp (0 .. MaxProp where zero is of interest)
MaxProp == 2

\* ------------------------------------------------------------- doubles
Abs(i) == IF i < 0 THEN -i ELSE i

Sign(i) == IF i < 0 THEN -1 ELSE IF i > 0 THEN 1 ELSE 0

RECURSIVE GCD(_, _)
GCD(a, b) == IF b = 0 THEN a ELSE GCD(b, a % b)

Norm(x) ==
  IF x[2] = 0 THEN <<Sign(x[1]), 0>>
  ELSE LET g == GCD(Abs(x[1]), Abs(x[2]))
           s == Sign(x[2])
       IN  <<(s * x[1]) \div g, (s * x[2]) \div g>>

R(i) == <<i, 1>>

Zero == R(0)

NaN == <<0, 0>>

PosInf == <<1, 0>>

IsFinite(x) == x[2] # 0

Neg(x) == <<-x[1], x[2]>>

Mul(x, y) == Norm(<<x[1] * y[1], x[2] * y[2]>>)

Recip(x) ==
  IF x[1] = 0 THEN (IF x[2] = 0 THEN NaN ELSE PosInf)
  ELSE IF x[1] < 0 THEN <<-x[2], -x[1]>> ELSE <<x[2], x[1]>>

Div(x, y) == Mul(x, Recip(y))

Add(x, y) ==
  IF x[2] = 0 /\ y[2] = 0 THEN (IF x = y THEN x ELSE NaN)
  ELSE Norm(<<x[1] * y[2] + y[1] * x[2], x[2] * y[2]>>)

Sub(x, y) == Add(x, Neg(y))

Less(x, y) == IsFinite(x) /\ IsFinite(y) /\ x[1] * y[2] < y[1] * x[2]

ISqrt(n) == CHOOSE k \in 0..n : k * k = n

RECURSIVE IPow(_, _)
IPow(b, e) == IF e = 0 THEN 1 ELSE b * IPow(b, e - 1)

\* pow(x, y) of <cmath> for the exponents the models use, y = k/2 > 0 with
\* k odd: NaN for NaN and for a negative finite base, +inf for both
\* infinities, and (sqrt x)^k otherwise.  The argument sets keep every
\* positive base the square of a fraction, so that the root is exact.
pow(x, y) ==
  IF x = NaN THEN NaN
  ELSE IF x[2] = 0 THEN PosInf
  ELSE IF x[1] < 0 THEN NaN
  ELSE <<IPow(ISqrt(x[1]), y[1]), IPow(ISqrt(x[2]), y[1])>>

\* strcmp of <cstring>, as far as its callers look: zero iff equal
strcmp(a, b) == IF a = b THEN 0 ELSE 1

Micro == 1000000

\* the text "%f" yields: nan, inf, -inf, or the sign and the value rounded
\* to six decimals (to nearest, ties to even), as <<sign, units, micros>>
Fmt_f(x) ==
  IF x = NaN THEN <<"nan">>
  ELSE IF x[2] = 0 THEN (IF x[1] > 0 THEN <<"inf">> ELSE <<"-inf">>)
  ELSE LET m == Abs(x[1]) * Micro
           q == m \div x[2]
           r == m % x[2]
           k == IF 2 * r > x[2] \/ (2 * r = x[2] /\ q % 2 = 1) THEN q + 1 ELSE q
       IN  <<IF x[1] < 0 THEN "-" ELSE "", k \div Micro, k % Micro>>

\* the text "%s" yields
Fmt_s(s) == <<s>>

\* printf(format, arguments): the line written, its arguments formatted
printf(fmt, args) == [format |-> fmt, args |-> args]


\* --------------------------------------------------------- argument sets
Temps == {R(-1)} \cup {R(k * k) : k \in 0..MaxRoot}

RefTemps == {R(k * k) : k \in 1..MaxRoot}

Rhos == {R(1), R(2)}

\* specific heats
Cps == {R(1), R(MaxProp)}

Props == {R(k) : k \in 1..MaxProp}

Props0 == {R(k) : k \in 0..MaxProp}

SutherlandS == {R(-1), R(0), R(1)}

\* the (T, rho) the conductivity models and the FluidProp models are called
\* with (the former read neither, the latter pass both on to the library)
CondStates == {<<R(1), R(2)>>, <<R(MaxRoot * MaxRoot), R(1)>>}

\* the (mu, cp) and (dmudrho_T, dmudT_rho, cp) the FluidProp conductivity
\* model is called with (it reads none of them)
CondInputs == {<<R(1), R(MaxProp)>>, <<R(MaxProp), R(1)>>}

CondDerInputs == {<<R(1), R(MaxProp), R(1)>>, <<R(MaxProp), R(1), R(MaxProp)>>}

\* what fluidprop_alltransprops may hand back: seven outputs, all different
Outputs(k) ==
  [eta |-> R(k), deta_dT |-> R(k + 1), deta_drho |-> R(k + 2), lambda |-> R(k + 3),
   dlambda_dT |-> R(k + 4), dlambda_drho |-> R(k + 5), sigma |-> R(k + 6)]

FluidPropOutputs == {Outputs(k) : k \in 1..MaxProp}

\* what fluidprop_geterror may hand back after a query
FluidPropErrors == {"No errors", "Input out of range"}

FluidPropReplies == [out : FluidPropOutputs, err : FluidPropErrors]

\* ------------------------------------------------------------ the state
VARIABLES
  this,             \* the model instance: its class and its fields
  ctor,             \* the constructor that built it, with its arguments
  fluidprop_error,  \* the message fluidprop_geterror() returns
  fluidprop_out,    \* the seven outputs of the latest fluidprop_alltransprops
  printed,          \* what the most recent call wrote to stdout
  calls,            \* the FluidProp calls the most recent call made
  last,             \* the most recent call: "none", "value" or "der"
  lastValue,        \* the arguments of the latest SetViscosity/SetConductivity
  lastDer,          \* the arguments of the latest SetDerViscosity/SetDerConductivity
  rep               \* the most recent call repeated the call before it

vars == <<this, ctor, fluidprop_error, fluidprop_out, printed, calls, last, lastValue, lastDer, rep>>

\* ---------------------------------------------------------- constructors
CViscosityModel == [Mu |-> Zero, dmudrho_T |-> Zero, dmudT_rho |-> Zero]

CConstantViscosity_default == [class |-> "CConstantViscosity"] @@ CViscosityModel

\* the constructor without its `Mu = mu_const;`
CConstantViscosity_unset(mu_const) ==
  [class |-> "CConstantViscosity"] @@
  [CViscosityModel EXCEPT !.dmudrho_T = Zero, !.dmudT_rho = Zero]

CConstantViscosity(mu_const) ==
  [class |-> "CConstantViscosity"] @@
  [CViscosityModel EXCEPT !.Mu = mu_const, !.dmudrho_T = Zero, !.dmudT_rho = Zero]

CSutherland_default ==
  [class |-> "CSutherland", Mu_ref |-> Zero, T_ref |-> Zero, S |-> Zero] @@ CViscosityModel

CSutherland(mu_ref, t_ref, s) ==
  [class |-> "CSutherland", Mu_ref |-> mu_ref, T_ref |-> t_ref, S |-> s] @@ CViscosityModel

CFluidPropViscosity == [class |-> "CFluidPropViscosity"] @@ CViscosityModel

CConductivityModel == [Kt |-> Zero, dktdrho_T |-> Zero, dktdT_rho |-> Zero]

CConstantConductivity_default == [class |-> "CConstantConductivity"] @@ CConductivityModel

CConstantConductivity(kt_const) ==
  [class |-> "CConstantConductivity"] @@
  [CConductivityModel EXCEPT !.Kt = kt_const, !.dktdrho_T = Zero, !.dktdT_rho = Zero]

\* the default constructor leaves Pr_const unset: it holds whatever the
\* memory held, here the value `garbage`
CConstantPrandtl_default(garbage) ==
  [class |-> "CConstantPrandtl", Pr_const |-> garbage] @@ CConductivityModel

CConstantPrandtl(pr_const) ==
  [class |-> "CConstantPrandtl", Pr_const |-> pr_const] @@ CConductivityModel

CFluidPropConductivity_default(garbage) ==
  [class |-> "CFluidPropConductivity", Pr_const |-> garbage] @@ CConductivityModel

CFluidPropConductivity(pr_const) ==
  [class |-> "CFluidPropConductivity", Pr_const |-> pr_const] @@ CConductivityModel

\* -------------------------------------------------------------- methods
\* Each method is the object it leaves behind, given the object it is
\* called on and its arguments.

\* the evaluations the Constant models inherit: they assign nothing
CViscosityModel_SetViscosity(o, T, rho) == o

CViscosityModel_SetDerViscosity(o, T, rho) == o

CConductivityModel_SetConductivity(o, T, rho, mu, cp) == o

CConductivityModel_SetDerConductivity(o, T, rho, dmudrho_T, dmudT_rho, cp) == o

\* the law with (T - S) for (T + S)
CSutherland_SetViscosity_minus(o, T, rho) ==
  [o EXCEPT !.Mu =
     Mul(Mul(o.Mu_ref, pow(Div(T, o.T_ref), Div(R(3), R(2)))),
         Div(Add(o.T_ref, o.S), Sub(T, o.S)))]

CSutherland_SetViscosity(o, T, rho) ==
  [o EXCEPT !.Mu =
     Mul(Mul(o.Mu_ref, pow(Div(T, o.T_ref), Div(R(3), R(2)))),
         Div(Add(o.T_ref, o.S), Add(T, o.S)))]

\* the two assignments with their targets exchanged
CSutherland_SetDerViscosity_swapped(o, T, rho) ==
  [o EXCEPT
     !.dmudT_rho = Zero,
     !.dmudrho_T =
        Mul(o.Mu_ref,
            Sub(Mul(Mul(Div(R(3), R(2)), pow(Div(T, o.T_ref), Div(R(1), R(2)))),
                    Div(Add(o.T_ref, o.S), Add(T, o.S))),
                Div(Div(Mul(pow(Div(T, o.T_ref), Div(R(3), R(2))), Add(o.T_ref, o.S)),
                        Add(T, o.S)),
                    Add(T, o.S))))]

\* the derivative evaluation refreshing Mu as well
CSutherland_SetDerViscosity_refreshing(o, T, rho) ==
  LET o1 == CSutherland_SetViscosity(o, T, rho)
  IN  [o1 EXCEPT
         !.dmudrho_T = Zero,
         !.dmudT_rho =
            Mul(o.Mu_ref,
                Sub(Mul(Mul(Div(R(3), R(2)), pow(Div(T, o.T_ref), Div(R(1), R(2)))),
                        Div(Add(o.T_ref, o.S), Add(T, o.S))),
                    Div(Div(Mul(pow(Div(T, o.T_ref), Div(R(3), R(2))), Add(o.T_ref, o.S)),
                            Add(T, o.S)),
                        Add(T, o.S))))]

CSutherland_SetDerViscosity(o, T, rho) ==
  [o EXCEPT
     !.dmudrho_T = Zero,
     !.dmudT_rho =
        Mul(o.Mu_ref,
            Sub(Mul(Mul(Div(R(3), R(2)), pow(Div(T, o.T_ref), Div(R(1), R(2)))),
                    Div(Add(o.T_ref, o.S), Add(T, o.S))),
                Div(Div(Mul(pow(Div(T, o.T_ref), Div(R(3), R(2))), Add(o.T_ref, o.S)),
                        Add(T, o.S)),
                    Add(T, o.S))))]

\* the conductivity added to the stored one instead of replacing it
CConstantPrandtl_SetConductivity_adding(o, T, rho, mu, cp) ==
  [o EXCEPT !.Kt = Add(o.Kt, Div(Mul(mu, cp), o.Pr_const))]

CConstantPrandtl_SetConductivity(o, T, rho, mu, cp) ==
  [o EXCEPT !.Kt = Div(Mul(mu, cp), o.Pr_const)]

\* each derivative taken from the other viscosity derivative
CConstantPrandtl_SetDerConductivity_swapped(o, T, rho, dmudrho_T, dmudT_rho, cp) ==
  [o EXCEPT !.dktdrho_T = Div(Mul(dmudT_rho, cp), o.Pr_const),
            !.dktdT_rho = Div(Mul(dmudrho_T, cp), o.Pr_const)]

CConstantPrandtl_SetDerConductivity(o, T, rho, dmudrho_T, dmudT_rho, cp) ==
  [o EXCEPT !.dktdrho_T = Div(Mul(dmudrho_T, cp), o.Pr_const),
            !.dktdT_rho = Div(Mul(dmudT_rho, cp), o.Pr_const)]

\* The FluidProp methods: `reply` is what the library answers to the one
\* query the method makes (its outputs, and the message fluidprop_geterror
\* returns from then on).  Each is the object left behind, the library
\* calls made, in order, and the lines written.
alltransprops(mode, T, rho) == <<"fluidprop_alltransprops", mode, T, rho>>

geterror == <<"fluidprop_geterror">>

\* if (strcmp(fluidprop_geterror(), "No errors")) { printf(.. fluidprop_geterror()); printf(..); }
Diagnose(o, query, reply, fmt, args) ==
  IF strcmp(reply.err, "No errors") # 0
  THEN [obj |-> o,
        calls |-> <<query, geterror, geterror>>,
        printed |-> <<printf("FluidProp error message: %s\n", <<Fmt_s(reply.err)>>),
                      printf(fmt, args)>>]
  ELSE [obj |-> o, calls |-> <<query, geterror>>, printed |-> <<>>]

\* the query handing &dmudT_rho, not the local deta_dT, to the library
CFluidPropViscosity_SetViscosity_clobbering(o, T, rho, reply) ==
  LET o1 == [o EXCEPT !.Mu = reply.out.eta, !.dmudT_rho = reply.out.deta_dT]
  IN  Diagnose(o1, alltransprops("Td", T, rho), reply,
               "T = %f, rho = %f, mu = %f\n",
               <<Fmt_f(T), Fmt_f(rho), Fmt_f(o1.Mu)>>)

CFluidPropViscosity_SetViscosity(o, T, rho, reply) ==
  LET o1 == [o EXCEPT !.Mu = reply.out.eta]
  IN  Diagnose(o1, alltransprops("Td", T, rho), reply,
               "T = %f, rho = %f, mu = %f\n",
               <<Fmt_f(T), Fmt_f(rho), Fmt_f(o1.Mu)>>)

CFluidPropViscosity_SetDerViscosity(o, T, rho, reply) ==
  LET o1 == [o EXCEPT !.dmudT_rho = reply.out.deta_dT,
                      !.dmudrho_T = reply.out.deta_drho]
  IN  Diagnose(o1, alltransprops("Td", T, rho), reply,
               "T = %f, rho = %f, dmudT_rho = %f, dmudrho_dT = %f\n",
               <<Fmt_f(T), Fmt_f(rho), Fmt_f(o1.dmudT_rho), Fmt_f(o1.dmudT_rho)>>)

\* the query with rho and T exchanged
CFluidPropConductivity_SetConductivity_swapped(o, T, rho, mu, cp, reply) ==
  LET o1 == [o EXCEPT !.Kt = reply.out.lambda]
  IN  Diagnose(o1, alltransprops("Td", rho, T), reply,
               "T = %f, rho = %f, Kt = %f\n",
               <<Fmt_f(T), Fmt_f(rho), Fmt_f(o1.Kt)>>)

CFluidPropConductivity_SetConductivity(o, T, rho, mu, cp, reply) ==
  LET o1 == [o EXCEPT !.Kt = reply.out.lambda]
  IN  Diagnose(o1, alltransprops("Td", T, rho), reply,
               "T = %f, rho = %f, Kt = %f\n",
               <<Fmt_f(T), Fmt_f(rho), Fmt_f(o1.Kt)>>)

CFluidPropConductivity_SetDerConductivity(o, T, rho, dmudrho_T, dmudT_rho, cp, reply) ==
  LET o1 == [o EXCEPT !.dktdT_rho = reply.out.dlambda_dT,
                      !.dktdrho_T = reply.out.dlambda_drho]
  IN  Diagnose(o1, alltransprops("Td", T, rho), reply,
               "T = %f, rho = %f, dktdT_rho = %f, dktdrho_dT = %f\n",
               <<Fmt_f(T), Fmt_f(rho), Fmt_f(o1.dktdT_rho), Fmt_f(o1.dktdT_rho)>>)

\* ------------------------------------------------------------------ Init
NoOutputs ==
  [eta |-> Zero, deta_dT |-> Zero, deta_drho |-> Zero, lambda |-> Zero,
   dlambda_dT |-> Zero, dlambda_drho |-> Zero, sigma |-> Zero]

Built(obj, name, args) ==
  /\ this = obj
  /\ ctor = [name |-> name, args |-> args]
  /\ fluidprop_error = "No errors"
  /\ fluidprop_out = NoOutputs
  /\ printed = <<>>
  /\ calls = <<>>
  /\ last = "none"
  /\ lastValue = <<>>
  /\ lastDer = <<>>
  /\ rep = FALSE

\* what an unset double member may hold
Garbage == {R(1), NaN}

Init ==
  \/ Built(CConstantViscosity_default, "CConstantViscosity", <<>>)
  \/ \E c \in Props0 : Built(CConstantViscosity(c), "CConstantViscosity", <<c>>)
  \/ Built(CSutherland_default, "CSutherland", <<>>)
  \/ \E m \in Props, t \in RefTemps, s \in SutherlandS :
        Built(CSutherland(m, t, s), "CSutherland", <<m, t, s>>)
  \/ Built(CFluidPropViscosity, "CFluidPropViscosity", <<>>)
  \/ Built(CConstantConductivity_default, "CConstantConductivity", <<>>)
  \/ \E k \in Props0 : Built(CConstantConductivity(k), "CConstantConductivity", <<k>>)
  \/ \E g \in Garbage : Built(CConstantPrandtl_default(g), "CConstantPrandtl", <<>>)
  \/ \E pr \in Props0 : Built(CConstantPrandtl(pr), "CConstantPrandtl", <<pr>>)
  \/ \E g \in Garbage :
        Built(CFluidPropConductivity_default(g), "CFluidPropConductivity", <<>>)
  \/ \E pr \in Props : Built(CFluidPropConductivity(pr), "CFluidPropConductivity", <<pr>>)

\* --------------------------------------------------------------- actions
\* bookkeeping of a call: which evaluation it was and with which arguments
Called(kind, args) ==
  /\ last' = kind
  /\ rep' = (last = kind /\ args = (IF kind = "value" THEN lastValue ELSE lastDer))
  /\ IF kind = "value"
     THEN lastValue' = args /\ UNCHANGED lastDer
     ELSE lastDer' = args /\ UNCHANGED lastValue
  /\ UNCHANGED ctor

\* a method that neither calls the library nor prints
Plain(o) ==
  /\ this' = o
  /\ printed' = <<>>
  /\ calls' = <<>>
  /\ UNCHANGED <<fluidprop_error, fluidprop_out>>

\* a method that queries the library, which answers `reply`
Queried(run, reply) ==
  /\ this' = run.obj
  /\ printed' = run.printed
  /\ calls' = run.calls
  /\ fluidprop_error' = reply.err
  /\ fluidprop_out' = reply.out

ConstantViscosity_SetViscosity ==
  \E T \in Temps, rho \in Rhos :
    /\ this.class = "CConstantViscosity"
    /\ Plain(CViscosityModel_SetViscosity(this, T, rho))
    /\ Called("value", <<T, rho>>)

ConstantViscosity_SetDerViscosity ==
  \E T \in Temps, rho \in Rhos :
    /\ this.class = "CConstantViscosity"
    /\ Plain(CViscosityModel_SetDerViscosity(this, T, rho))
    /\ Called("der", <<T, rho>>)

Sutherland_SetViscosity ==
  \E T \in Temps, rho \in Rhos :
    /\ this.class = "CSutherland"
    /\ Plain(CSutherland_SetViscosity(this, T, rho))
    /\ Called("value", <<T, rho>>)

Sutherland_SetDerViscosity ==
  \E T \in Temps, rho \in Rhos :
    /\ this.class = "CSutherland"
    /\ Plain(CSutherland_SetDerViscosity(this, T, rho))
    /\ Called("der", <<T, rho>>)

FluidPropViscosity_SetViscosity ==
  \E st \in CondStates, reply \in FluidPropReplies :
    /\ this.class = "CFluidPropViscosity"
    /\ Queried(CFluidPropViscosity_SetViscosity(this, st[1], st[2], reply), reply)
    /\ Called("value", <<st[1], st[2]>>)

FluidPropViscosity_SetDerViscosity ==
  \E st \in CondStates, reply \in FluidPropReplies :
    /\ this.class = "CFluidPropViscosity"
    /\ Queried(CFluidPropViscosity_SetDerViscosity(this, st[1], st[2], reply), reply)
    /\ Called("der", <<st[1], st[2]>>)

ConstantConductivity_SetConductivity ==
  \E st \in CondStates, mu \in Props0, cp \in Cps :
    /\ this.class = "CConstantConductivity"
    /\ Plain(CConductivityModel_SetConductivity(this, st[1], st[2], mu, cp))
    /\ Called("value", <<st[1], st[2], mu, cp>>)

ConstantConductivity_SetDerConductivity ==
  \E st \in CondStates, dmudrho_T \in Props, dmudT_rho \in Props, cp \in Cps :
    /\ this.class = "CConstantConductivity"
    /\ Plain(CConductivityModel_SetDerConductivity(this, st[1], st[2], dmudrho_T, dmudT_rho, cp))
    /\ Called("der", <<st[1], st[2], dmudrho_T, dmudT_rho, cp>>)

ConstantPrandtl_SetConductivity ==
  \E st \in CondStates, mu \in Props0, cp \in Cps :
    /\ this.class = "CConstantPrandtl"
    /\ Plain(CConstantPrandtl_SetConductivity(this, st[1], st[2], mu, cp))
    /\ Called("value", <<st[1], st[2], mu, cp>>)

ConstantPrandtl_SetDerConductivity ==
  \E st \in CondStates, dmudrho_T \in Props, dmudT_rho \in Props, cp \in Cps :
    /\ this.class = "CConstantPrandtl"
    /\ Plain(CConstantPrandtl_SetDerConductivity(this, st[1], st[2], dmudrho_T, dmudT_rho, cp))
    /\ Called("der", <<st[1], st[2], dmudrho_T, dmudT_rho, cp>>)

FluidPropConductivity_SetConductivity ==
  \E st \in CondStates, in \in CondInputs, reply \in FluidPropReplies :
    /\ this.class = "CFluidPropConductivity"
    /\ Queried(CFluidPropConductivity_SetConductivity(
                 this, st[1], st[2], in[1], in[2], reply), reply)
    /\ Called("value", <<st[1], st[2], in[1], in[2]>>)

FluidPropConductivity_SetDerConductivity ==
  \E st \in CondStates, in \in CondDerInputs, reply \in FluidPropReplies :
    /\ this.class = "CFluidPropConductivity"
    /\ Queried(CFluidPropConductivity_SetDerConductivity(
                 this, st[1], st[2], in[1], in[2], in[3], reply), reply)
    /\ Called("der", <<st[1], st[2], in[1], in[2], in[3]>>)

Next ==
  \/ ConstantViscosity_SetViscosity
  \/ ConstantViscosity_SetDerViscosity
  \/ Sutherland_SetViscosity
  \/ Sutherland_SetDerViscosity
  \/ FluidPropViscosity_SetViscosity
  \/ FluidPropViscosity_SetDerViscosity
  \/ ConstantConductivity_SetConductivity
  \/ ConstantConductivity_SetDerConductivity
  \/ ConstantPrandtl_SetConductivity
  \/ ConstantPrandtl_SetDerConductivity
  \/ FluidPropConductivity_SetConductivity
  \/ FluidPropConductivity_SetDerConductivity

Spec == Init /\ [][Next]_vars

\* ---------------------------------------------------------------- claims
IsFluidProp == this.class \in {"CFluidPropViscosity", "CFluidPropConductivity"}

\* the arguments of the most recent call
LastArgs == IF last = "value" THEN lastValue ELSE lastDer

\* C1: a Constant viscosity model built with the value c, and a Constant
\* conductivity model built with the value k, keep Mu = c (Kt = k) and both
\* derivatives exactly 0 through every sequence of evaluations.
C1_ConstantUnchanged ==
  /\ (this.class = "CConstantViscosity" /\ ctor.args # <<>>) =>
        /\ this.Mu = ctor.args[1]
        /\ this.dmudrho_T = Zero
        /\ this.dmudT_rho = Zero
  /\ (this.class = "CConstantConductivity" /\ ctor.args # <<>>) =>
        /\ this.Kt = ctor.args[1]
        /\ this.dktdrho_T = Zero
        /\ this.dktdT_rho = Zero

C1_Witness ==
  /\ this.class = "CConstantViscosity"
  /\ ctor.args = <<R(MaxProp)>>
  /\ lastValue # <<>>
  /\ lastDer # <<>>

\* C2: a Constant-Prandtl model built with Pr > 0 stores Kt = mu*cp/Pr after
\* SetConductivity(T, rho, mu, cp), and dKt/drho = dmu_drho*cp/Pr and
\* dKt/dT = dmu_dT*cp/Pr after SetDerConductivity(T, rho, dmu_drho, dmu_dT, cp),
\* whatever T and rho were.
C2_ConstantPrandtl ==
  (this.class = "CConstantPrandtl" /\ ctor.args # <<>> /\ Less(Zero, ctor.args[1])) =>
     LET Pr == ctor.args[1]
     IN  /\ lastValue # <<>> =>
              /\ IsFinite(this.Kt)
              /\ Mul(this.Kt, Pr) = Mul(lastValue[3], lastValue[4])
         /\ lastDer # <<>> =>
              /\ IsFinite(this.dktdrho_T)
              /\ IsFinite(this.dktdT_rho)
              /\ Mul(this.dktdrho_T, Pr) = Mul(lastDer[3], lastDer[5])
              /\ Mul(this.dktdT_rho, Pr) = Mul(lastDer[4], lastDer[5])

C2_Witness ==
  /\ this.class = "CConstantPrandtl"
  /\ ctor.args = <<R(2)>>
  /\ lastValue # <<>>
  /\ lastDer # <<>>
  /\ this.Kt = <<1, 2>>
  /\ this.dktdrho_T # this.dktdT_rho

\* C3: the density derivative a Sutherland model stores is exactly 0 in every
\* reachable state.
C3_SutherlandNoDensityDependence ==
  this.class = "CSutherland" => this.dmudrho_T = Zero

C3_Witness ==
  /\ this.class = "CSutherland"
  /\ last = "der"
  /\ lastValue # <<>>
  /\ IsFinite(this.dmudT_rho)
  /\ this.dmudT_rho # Zero

\* C4: a Sutherland model with T_ref /= 0 and T_ref + S /= 0 stores
\* Mu = Mu_ref after SetViscosity(T_ref, rho), for every rho.
C4_SutherlandAtReference ==
  (/\ this.class = "CSutherland"
   /\ lastValue # <<>>
   /\ this.T_ref # Zero
   /\ Add(this.T_ref, this.S) # Zero
   /\ lastValue[1] = this.T_ref) => this.Mu = this.Mu_ref

C4_Witness ==
  /\ this.class = "CSutherland"
  /\ lastValue # <<>>
  /\ lastValue[1] = this.T_ref
  /\ this.T_ref = R(4)
  /\ this.S = R(1)
  /\ this.Mu_ref = R(2)
  /\ this.Mu = R(2)

\* d/dT of the expression CSutherland_SetViscosity assigns to Mu,
\*   Mu_ref * f(T) * g(T),  f(T) = (T/T_ref)^(3/2),  g(T) = (T_ref + S)/(T + S),
\* by the product rule, with f'(T) = (3/2) (T/T_ref)^(1/2) / T_ref and
\* g'(T) = - (T_ref + S)/(T + S)^2
dSutherland_dT(o, T) ==
  LET f  == pow(Div(T, o.T_ref), Div(R(3), R(2)))
      df == Div(Mul(Div(R(3), R(2)), pow(Div(T, o.T_ref), Div(R(1), R(2)))), o.T_ref)
      g  == Div(Add(o.T_ref, o.S), Add(T, o.S))
      dg == Neg(Div(Div(Add(o.T_ref, o.S), Add(T, o.S)), Add(T, o.S)))
  IN  Mul(o.Mu_ref, Add(Mul(df, g), Mul(f, dg)))

\* C5: after SetDerViscosity(T, rho) with T > 0, the temperature derivative a
\* Sutherland model stores is the analytic derivative, at T, of the Mu(T)
\* that SetViscosity computes.
C5_SutherlandAnalyticDerivative ==
  (this.class = "CSutherland" /\ lastDer # <<>> /\ Less(Zero, lastDer[1])) =>
     this.dmudT_rho = dSutherland_dT(this, lastDer[1])

\* C6: for the Sutherland and the Constant-Prandtl model, a call that repeats
\* the call before it (same evaluation, same arguments) leaves every field
\* as the first of the two left it.
C6_Idempotent ==
  [][(rep' /\ this.class \in {"CSutherland", "CConstantPrandtl"}) => this' = this]_vars

C6_Witness ==
  /\ rep
  /\ this.class = "CConstantPrandtl"
  /\ last = "value"
  /\ IsFinite(this.Kt)
  /\ this.Kt # Zero

\* C7: a FluidProp method whose query ends with an error message other than
\* "No errors" returns, having changed only its own fields: SetViscosity at
\* most Mu, SetDerViscosity at most the two viscosity derivatives,
\* SetConductivity at most Kt, SetDerConductivity at most the two
\* conductivity derivatives.
C7_ErrorTouchesOwnFieldsOnly ==
  [][(IsFluidProp /\ fluidprop_error' # "No errors") =>
       /\ (this.class = "CFluidPropViscosity" /\ last' = "value") =>
             this' = [this EXCEPT !.Mu = this'.Mu]
       /\ (this.class = "CFluidPropViscosity" /\ last' = "der") =>
             this' = [this EXCEPT !.dmudT_rho = this'.dmudT_rho,
                                  !.dmudrho_T = this'.dmudrho_T]
       /\ (this.class = "CFluidPropConductivity" /\ last' = "value") =>
             this' = [this EXCEPT !.Kt = this'.Kt]
       /\ (this.class = "CFluidPropConductivity" /\ last' = "der") =>
             this' = [this EXCEPT !.dktdT_rho = this'.dktdT_rho,
                                  !.dktdrho_T = this'.dktdrho_T]]_vars

C7_Witness ==
  /\ this.class = "CFluidPropViscosity"
  /\ fluidprop_error # "No errors"
  /\ last = "value"
  /\ printed # <<>>
  /\ lastDer # <<>>
  /\ this.Mu # Zero
  /\ this.dmudT_rho # Zero

\* C8: every FluidProp method makes exactly one property query, the first of
\* its library calls, with the mode "Td" and the caller's T and rho in that
\* order; it then asks for the last error message, and it prints iff that
\* message is not "No errors".
C8_OneQueryThenErrorCheck ==
  (IsFluidProp /\ last # "none") =>
     /\ Len(calls) >= 2
     /\ calls[1] = alltransprops("Td", LastArgs[1], LastArgs[2])
     /\ \A i \in 2..Len(calls) : calls[i] = geterror
     /\ (printed # <<>>) <=> (fluidprop_error # "No errors")

C8_Witness ==
  /\ this.class = "CFluidPropConductivity"
  /\ last = "der"
  /\ lastDer[1] # lastDer[2]
  /\ fluidprop_error # "No errors"
  /\ printed # <<>>

\* C9: the value field is the model's result for the arguments of the most
\* recent value evaluation (the constructor's value if there was none), and
\* the derivative fields are its result for the arguments of the most recent
\* derivative evaluation (the constructor's if there was none), each
\* untouched by the other kind of evaluation.
C9_FieldsReflectLatestCall ==
  /\ this.class = "CSutherland" =>
        /\ this.Mu = IF lastValue = <<>> THEN Zero
                     ELSE CSutherland_SetViscosity(this, lastValue[1], lastValue[2]).Mu
        /\ LET d == CSutherland_SetDerViscosity(this, lastDer[1], lastDer[2])
           IN  /\ this.dmudT_rho = IF lastDer = <<>> THEN Zero ELSE d.dmudT_rho
               /\ this.dmudrho_T = IF lastDer = <<>> THEN Zero ELSE d.dmudrho_T
  /\ this.class = "CConstantPrandtl" =>
        /\ this.Kt = IF lastValue = <<>> THEN Zero
                     ELSE CConstantPrandtl_SetConductivity(
                            this, lastValue[1], lastValue[2], lastValue[3], lastValue[4]).Kt
        /\ LET d == CConstantPrandtl_SetDerConductivity(
                      this, lastDer[1], lastDer[2], lastDer[3], lastDer[4], lastDer[5])
           IN  /\ this.dktdT_rho = IF lastDer = <<>> THEN Zero ELSE d.dktdT_rho
               /\ this.dktdrho_T = IF lastDer = <<>> THEN Zero ELSE d.dktdrho_T
  /\ this.class = "CFluidPropViscosity" =>
        /\ lastValue = <<>> => this.Mu = Zero
        /\ lastDer = <<>> => this.dmudT_rho = Zero /\ this.dmudrho_T = Zero
        /\ last = "value" => this.Mu = fluidprop_out.eta
        /\ last = "der" => /\ this.dmudT_rho = fluidprop_out.deta_dT
                           /\ this.dmudrho_T = fluidprop_out.deta_drho
  /\ this.class = "CFluidPropConductivity" =>
        /\ lastValue = <<>> => this.Kt = Zero
        /\ lastDer = <<>> => this.dktdT_rho = Zero /\ this.dktdrho_T = Zero
        /\ last = "value" => this.Kt = fluidprop_out.lambda
        /\ last = "der" => /\ this.dktdT_rho = fluidprop_out.dlambda_dT
                           /\ this.dktdrho_T = fluidprop_out.dlambda_drho

C9_Witness ==
  /\ this.class = "CSutherland"
  /\ last = "der"
  /\ lastValue # <<>>
  /\ lastValue[1] # lastDer[1]
  /\ lastValue[2] # lastDer[2]
  /\ IsFinite(this.Mu) /\ this.Mu # Zero
  /\ IsFinite(this.dmudT_rho) /\ this.dmudT_rho # Zero

\* C10: the diagnostic a FluidProp method writes on an error holds the
\* error text, the T and rho of the call, and every value the method
\* computed: Mu, or Kt, or both the temperature and the density derivative.
C10_DiagnosticShowsAllValues ==
  (IsFluidProp /\ last # "none" /\ fluidprop_error # "No errors") =>
     /\ Len(printed) = 2
     /\ printed[1].args = <<Fmt_s(fluidprop_error)>>
     /\ LET shown == {printed[2].args[i] : i \in DOMAIN printed[2].args}
            computed ==
              IF this.class = "CFluidPropViscosity"
              THEN (IF last = "value" THEN {this.Mu}
                    ELSE {this.dmudT_rho, this.dmudrho_T})
              ELSE (IF last = "value" THEN {this.Kt}
                    ELSE {this.dktdT_rho, this.dktdrho_T})
        IN  /\ Fmt_f(LastArgs[1]) \in shown
            /\ Fmt_f(LastArgs[2]) \in shown
            /\ \A x \in computed : Fmt_f(x) \in shown

====
